---- MODULE Spec2Model ----
(***************************************************************************)
(* robotlib.signals: the one-pole filters of filters.py and the periodic   *)
(* signal generators of generators.py, as state machines.                  *)
(*                                                                         *)
(* Numbers.  A Python float is an IEEE 754 binary64 value, and the model   *)
(* computes +, -, *, / and % on them as CPython does: correctly rounded    *)
(* (round to nearest, ties to even), with signed zeros, subnormals,        *)
(* infinities and NaN, and with ZeroDivisionError for a zero divisor.      *)
(* math.pi is the double 0x1.921fb54442d18p+1.  math.sin returns what the  *)
(* C library's sin returns, a double next to the sine that need not be the *)
(* nearest one: the model takes every double the library can return.       *)
(* An exception raised by an operation is a value of its own kind, which   *)
(* every caller passes up as the code does.                                *)
(***************************************************************************)
EXTENDS Integers, Sequences, FiniteSets, TLC

VARIABLES filt, fhist, fcall, gen, ghist, gcall

vars == <<filt, fhist, fcall, gen, ghist, gcall>>
fvars == <<filt, fhist, fcall>>
gvars == <<gen, ghist, gcall>>

(***************************************************************************)
(* Bounds of the model.                                                    *)
(***************************************************************************)
\* filter(value, dt) calls made on one filter instance
MaxCalls == 2
\* setter calls made on one filter instance
MaxSets == 1
\* sample(dt) calls made on one generator instance
MaxSamples == 3

(***************************************************************************)
(* Python float: IEEE 754 binary64, round to nearest, ties to even         *)
(* A float is [k, s, e, m]: k is "fin", "inf" or "nan", s the sign bit,    *)
(* and a finite float is (-1)^s * M * 2^e with the integer M < 2^53 held   *)
(* in m as four base-2^14 limbs, least significant first.  M >= 2^52       *)
(* unless e = MinExp (subnormal, and zero).  Integers wider than a TLC     *)
(* integer are sequences of limbs ("wide" numbers).                        *)
(***************************************************************************)
\* limb base 2^14: eight products of limbs fit a 32-bit integer
Base == 16384
\* sys.float_info.mant_dig
MantBits == 53
\* sys.float_info.min_exp - mant_dig
MinExp == -1074
\* sys.float_info.max_exp - mant_dig
MaxExp == 971

NoMant == <<0, 0, 0, 0>>
NaN == [k |-> "nan", s |-> 0, e |-> 0, m |-> NoMant]
Inf(s) == [k |-> "inf", s |-> s, e |-> 0, m |-> NoMant]
FZero(s) == [k |-> "fin", s |-> s, e |-> MinExp, m |-> NoMant]
\* the result of x / 0.0 and x % 0.0: the exception in place of a float
ZeroDivisionError == [k |-> "ZeroDivisionError", s |-> 0, e |-> 0, m |-> NoMant]

IsNaN(x) == x.k = "nan"
IsInf(x) == x.k = "inf"
IsZero(x) == x.k = "fin" /\ x.m = NoMant
Raised(x) == x.k = "ZeroDivisionError"

Pow2(n) == 2^n

Limb(w, i) == IF i >= 1 /\ i <= Len(w) THEN w[i] ELSE 0

\* the number of bits of a limb
BitLenInt(x) == CHOOSE n \in 0..14 : x < Pow2(n) /\ (n = 0 \/ x >= Pow2(n - 1))

RECURSIVE TopIdx(_, _)
TopIdx(w, i) == IF i = 0 THEN 0 ELSE IF w[i] # 0 THEN i ELSE TopIdx(w, i - 1)

WBitLenAt(w, t) == IF t = 0 THEN 0 ELSE 14 * (t - 1) + BitLenInt(w[t])
WBitLen(w) == WBitLenAt(w, TopIdx(w, Len(w)))

WBit(w, n) == (Limb(w, (n \div 14) + 1) \div Pow2(n % 14)) % 2

\* some bit below bit n is set
WLowNonZero(w, n) ==
    \/ \E i \in 1..(n \div 14) : Limb(w, i) # 0
    \/ Limb(w, (n \div 14) + 1) % Pow2(n % 14) # 0

\* a function on 1..n as a tuple
Tuple(f) == f \o <<>>

WShrBy(w, ls, bs) ==
    Tuple([i \in 1..(IF Len(w) > ls THEN Len(w) - ls ELSE 0) |->
        (Limb(w, i + ls) \div Pow2(bs)) + (Limb(w, i + ls + 1) % Pow2(bs)) * Pow2(14 - bs)])
WShr(w, n) == WShrBy(w, n \div 14, n % 14)

WShlBy(w, ls, bs) ==
    Tuple([i \in 1..(Len(w) + ls + 1) |->
        ((Limb(w, i - ls) * Pow2(bs)) % Base) + (Limb(w, i - ls - 1) \div Pow2(14 - bs))])
WShl(w, n) == WShlBy(w, n \div 14, n % 14)

RECURSIVE WCmpFrom(_, _, _)
WCmpFrom(a, b, i) ==
    IF i = 0 THEN 0
    ELSE IF Limb(a, i) > Limb(b, i) THEN 1
    ELSE IF Limb(a, i) < Limb(b, i) THEN -1
    ELSE WCmpFrom(a, b, i - 1)
WCmp(a, b) == WCmpFrom(a, b, IF Len(a) > Len(b) THEN Len(a) ELSE Len(b))

\* the columns c from i on, with the carry into column i, as limbs followed by
\* the carry out of the last column
RECURSIVE Carry(_, _, _)
Carry(c, i, carry) ==
    IF i > Len(c) THEN <<carry>>
    ELSE <<(c[i] + carry) % Base>> \o Carry(c, i + 1, (c[i] + carry) \div Base)

MaxLen(a, b) == IF Len(a) > Len(b) THEN Len(a) ELSE Len(b)

WAdd(a, b) == Carry(Tuple([i \in 1..MaxLen(a, b) |-> Limb(a, i) + Limb(b, i)]), 1, 0)
\* a - b for a >= b
WSub(a, b) == Carry(Tuple([i \in 1..MaxLen(a, b) |-> Limb(a, i) - Limb(b, i)]), 1, 0)
\* the product of two mantissas
MantMul(a, b) ==
    Carry(Tuple([n \in 1..7 |-> Limb(a, 1) * Limb(b, n) + Limb(a, 2) * Limb(b, n - 1)
                                + Limb(a, 3) * Limb(b, n - 2) + Limb(a, 4) * Limb(b, n - 3)]),
          1, 0)

Pack(s, m, e) ==
    IF \A i \in 1..Len(m) : m[i] = 0 THEN FZero(s)
    ELSE IF e > MaxExp THEN Inf(s)
    ELSE [k |-> "fin", s |-> s, e |-> e, m |-> <<Limb(m, 1), Limb(m, 2), Limb(m, 3), Limb(m, 4)>>]

Renorm(s, m, e) ==
    IF WBitLen(m) > MantBits THEN Pack(s, WShr(m, 1), e + 1) ELSE Pack(s, m, e)

RoundUp(s, q, e, up) == IF up THEN Renorm(s, WAdd(q, <<1>>), e) ELSE Pack(s, q, e)

RoundAt(s, w, e, sticky, shift) ==
    IF shift <= 0 THEN Pack(s, WShl(w, -shift), e + shift)
    ELSE RoundUp(s, WShr(w, shift), e + shift,
                 /\ WBit(w, shift - 1) = 1
                 /\ (sticky \/ WLowNonZero(w, shift - 1) \/ WBit(w, shift) = 1))

ShiftFor(len, e) == IF len - MantBits > MinExp - e THEN len - MantBits ELSE MinExp - e

\* the float nearest to (-1)^s * w * 2^e, w wide; sticky: the exact value lies
\* strictly between w * 2^e and (w + 1) * 2^e
Round(s, w, e, sticky) == RoundAt(s, w, e, sticky, ShiftFor(WBitLen(w), e))

\* float(n) for an integer n, and n * 2^e
Float(n, e) ==
    Round(IF n < 0 THEN 1 ELSE 0,
          IF n < 0 THEN <<(-n) % Base, ((-n) \div Base) % Base, (-n) \div (Base * Base)>>
          ELSE <<n % Base, (n \div Base) % Base, n \div (Base * Base)>>,
          e, FALSE)
Num(n) == Float(n, 0)

Zero == Num(0)
One == Num(1)

Xor(a, b) == (a + b) % 2

Neg(x) == IF IsNaN(x) THEN NaN ELSE [x EXCEPT !.s = 1 - x.s]

CmpMag(x, y) ==
    IF IsInf(x) THEN (IF IsInf(y) THEN 0 ELSE 1)
    ELSE IF IsInf(y) THEN -1
    ELSE IF x.e # y.e THEN (IF x.e > y.e THEN 1 ELSE -1)
    ELSE WCmp(x.m, y.m)

\* -1, 0, 1 as x < y, x == y, x > y, for x and y not NaN
Cmp(x, y) ==
    IF IsZero(x) /\ IsZero(y) THEN 0
    ELSE IF x.s # y.s THEN (IF x.s = 1 THEN -1 ELSE 1)
    ELSE IF x.s = 0 THEN CmpMag(x, y)
    ELSE CmpMag(y, x)

Eq(x, y) == ~IsNaN(x) /\ ~IsNaN(y) /\ Cmp(x, y) = 0
Lt(x, y) == ~IsNaN(x) /\ ~IsNaN(y) /\ Cmp(x, y) < 0
Gt(x, y) == Lt(y, x)
Le(x, y) == ~IsNaN(x) /\ ~IsNaN(y) /\ Cmp(x, y) <= 0
Ge(x, y) == Le(y, x)

AddOrdered(sa, a, sb, b, e, c) ==
    IF c = 0 THEN FZero(0)
    ELSE IF c > 0 THEN Round(sa, WSub(a, b), e, FALSE)
    ELSE Round(sb, WSub(b, a), e, FALSE)

AddAligned(sa, a, sb, b, e) ==
    IF sa = sb THEN Round(sa, WAdd(a, b), e, FALSE)
    ELSE AddOrdered(sa, a, sb, b, e, WCmp(a, b))

\* x + y
Add(x, y) ==
    IF IsNaN(x) \/ IsNaN(y) THEN NaN
    ELSE IF IsInf(x) THEN (IF IsInf(y) /\ x.s # y.s THEN NaN ELSE x)
    ELSE IF IsInf(y) THEN y
    ELSE IF IsZero(x) THEN (IF IsZero(y) THEN FZero(x.s * y.s) ELSE y)
    ELSE IF IsZero(y) THEN x
    ELSE IF x.e - y.e >= 64 THEN x
    ELSE IF y.e - x.e >= 64 THEN y
    ELSE IF x.e >= y.e THEN AddAligned(x.s, WShl(x.m, x.e - y.e), y.s, y.m, y.e)
    ELSE AddAligned(x.s, x.m, y.s, WShl(y.m, y.e - x.e), x.e)

\* x - y
Sub(x, y) == Add(x, Neg(y))

\* x * y
Mul(x, y) ==
    IF IsNaN(x) \/ IsNaN(y) THEN NaN
    ELSE IF IsInf(x) \/ IsInf(y)
         THEN (IF IsZero(x) \/ IsZero(y) THEN NaN ELSE Inf(Xor(x.s, y.s)))
    ELSE IF IsZero(x) \/ IsZero(y) THEN FZero(Xor(x.s, y.s))
    ELSE Round(Xor(x.s, y.s), MantMul(x.m, y.m), x.e + y.e, FALSE)

\* r - q * d, r of five limbs and d of four: five limbs and the sign (0 or less)
SubMul(r, d, q) == Carry(Tuple([i \in 1..5 |-> r[i] - q * Limb(d, i)]), 1, 0)

AddTop(u, top) == <<u[1], u[2], u[3], u[4], u[5], u[6] + top>>

AddBack(t, d) == AddTop(Carry(Tuple([i \in 1..5 |-> t[i] + Limb(d, i)]), 1, 0), t[6])

\* <<q, r - q * d>> for the largest q that leaves the remainder t >= 0
RECURSIVE FixDigit(_, _, _)
FixDigit(q, t, d) ==
    IF t[6] >= 0 THEN <<q, SubSeq(t, 1, 4)>>
    ELSE FixDigit(q - 1, AddBack(t, d), d)

MinInt(a, b) == IF a < b THEN a ELSE b

\* <<q, r - q * d>> with q = floor(r / d), for r of five limbs, r < d * 2^14 and
\* d[4] >= 2^13: q is estimated from the leading limbs and corrected downwards
DivStep(r, d) ==
    FixDigit(MinInt((r[5] * Base + r[4]) \div d[4], Base - 1),
             SubMul(r, d, MinInt((r[5] * Base + r[4]) \div d[4], Base - 1)),
             d)

\* the next base-2^14 digit of r / d, for r < d
DivDigit(r, d) == DivStep(<<0, r[1], r[2], r[3], r[4]>>, d)

\* n digits of r / d, most significant first, followed by the remainder
RECURSIVE DivDigits(_, _, _)
DivAfter(qr, d, n) == <<qr[1]>> \o DivDigits(qr[2], d, n)
DivDigits(r, d, n) == IF n = 0 THEN <<r>> ELSE DivAfter(DivDigit(r, d), d, n - 1)

\* floor(n * 2^56 / d) as five limbs, and whether the division left a remainder
DivFrom(q0, ds) == [q |-> <<ds[4], ds[3], ds[2], ds[1], q0>>, sticky |-> ds[5] # NoMant]
DivMant(n, d) ==
    IF WCmp(n, d) >= 0 THEN DivFrom(1, DivDigits(SubSeq(WSub(n, d), 1, 4), d, 4))
    ELSE DivFrom(0, DivDigits(n, d, 4))

DivRound(s, qs, e) == Round(s, qs.q, e, qs.sticky)

\* both mantissas are shifted to 56 bits, which fills four limbs
DivFin(s, xm, xlen, xe, ym, ylen, ye) ==
    DivRound(s,
             DivMant(SubSeq(WShl(xm, 56 - xlen), 1, 4), SubSeq(WShl(ym, 56 - ylen), 1, 4)),
             (xe - (56 - xlen)) - (ye - (56 - ylen)) - 56)

\* x / y
Div(x, y) ==
    IF IsZero(y) THEN ZeroDivisionError
    ELSE IF IsNaN(x) \/ IsNaN(y) THEN NaN
    ELSE IF IsInf(x) THEN (IF IsInf(y) THEN NaN ELSE Inf(Xor(x.s, y.s)))
    ELSE IF IsInf(y) \/ IsZero(x) THEN FZero(Xor(x.s, y.s))
    ELSE DivFin(Xor(x.s, y.s), x.m, WBitLen(x.m), x.e, y.m, WBitLen(y.m), y.e)

\* (r * 2^14) mod d and (r * 2^112) mod d, for r < d
ModLimb(r, d) == DivDigit(r, d)[2]
ModLimb8(r, d) ==
    ModLimb(ModLimb(ModLimb(ModLimb(ModLimb(ModLimb(ModLimb(ModLimb(r, d), d), d), d), d), d), d), d)

\* (r * 2^(14 * n)) mod d, for r < d
RECURSIVE ModLimbs(_, _, _)
ModLimbs(r, d, n) ==
    IF n = 0 \/ r = NoMant THEN r
    ELSE IF n >= 8 THEN ModLimbs(ModLimb8(r, d), d, n - 8)
    ELSE ModLimbs(ModLimb(r, d), d, n - 1)

\* (n * 2^g) mod d for n < 2 * d
ModShifted(r, d, g) ==
    ModLimbs(DivStep(SubSeq(WShl(r, g % 14), 1, 5), d)[2], d, g \div 14)
ModMant(n, d, g) ==
    IF WCmp(n, d) >= 0 THEN ModShifted(SubSeq(WSub(n, d), 1, 4), d, g)
    ELSE ModShifted(n, d, g)

\* both mantissas are shifted to 56 bits, as in DivFin
ModFin(s, xm, xlen, xe, ym, ylen, ye) ==
    Round(s,
          ModMant(SubSeq(WShl(xm, 56 - xlen), 1, 4), SubSeq(WShl(ym, 56 - ylen), 1, 4),
                  (xe - (56 - xlen)) - (ye - (56 - ylen))),
          ye - (56 - ylen), FALSE)

\* C fmod(x, y) for finite x and finite y # 0: exact, with the sign of x
FMod(x, y) ==
    IF CmpMag(x, y) < 0 THEN x
    ELSE ModFin(x.s, x.m, WBitLen(x.m), x.e, y.m, WBitLen(y.m), y.e)

\* float_rem: the remainder takes the sign of y
ModSigned(mod, y) ==
    IF IsNaN(mod) THEN NaN
    ELSE IF IsZero(mod) THEN FZero(y.s)
    ELSE IF mod.s # y.s THEN Add(mod, y)
    ELSE mod

\* x % y
Mod(x, y) ==
    IF IsZero(y) THEN ZeroDivisionError
    ELSE IF IsNaN(x) \/ IsNaN(y) \/ IsInf(x) THEN NaN
    ELSE IF IsInf(y) THEN ModSigned(x, y)
    ELSE ModSigned(FMod(x, y), y)

\* math.pi = 0x1.921fb54442d18p+1
pi == [k |-> "fin", s |-> 0, e |-> -51, m |-> <<11544, 4368, 8117, 1608>>]

(***************************************************************************)
(* math.sin.  CPython returns what the C library's sin returns, which is   *)
(* a double next to the sine of the argument but not always the nearest    *)
(* one: which of the two neighbours it is depends on the library.  sin(x)  *)
(* is therefore the set of the doubles the call can return: the doubles    *)
(* within 1/2 + 2^-SinErrorBits units in the last place of the sine.  The  *)
(* argument is reduced by multiplying its mantissa with the limbs of       *)
(* 2 / pi that can affect the quadrant and the fraction, and the sine or   *)
(* cosine of the reduced argument is summed from its Taylor series in      *)
(* 126-bit fixed point.                                                    *)
(***************************************************************************)
ValueError == [k |-> "ValueError", s |-> 0, e |-> 0, m |-> NoMant]

\* the fraction limbs of 2 / pi in base 2^14, most significant first
TwoOverPi ==
    <<10430, 6198, 14649, 1045, 2687, 629, 8007, 13620, 14192, 3510, 2646, 6460,
      4324, 1055, 14661, 9131, 14254, 15446, 1756, 9326, 3728, 9437, 2944, 1609,
      3002, 8349, 1608, 7422, 1914, 12747, 1190, 10046, 14880, 9055, 5306, 15172,
      8506, 6599, 154, 13407, 8080, 5017, 1880, 14723, 5326, 8009, 12817, 8075,
      12158, 4739, 11391, 14487, 16375, 8281, 8255, 12079, 1122, 13728, 10676, 8045,
      3487, 11506, 7980, 2487, 5073, 9206, 6777, 8170, 2909, 4731, 11039, 11237,
      15454, 13264, 7399, 14218, 5284, 11942, 12269, 8113, 2019, 5584, 8536, 816,
      4543, 1974, 11951, 12495, 12040, 2479>>

\* pi / 2 in fixed point with 7 fraction limbs, least significant first
PiOverTwo == <<5212, 6348, 6754, 4484, 4363, 15188, 9351, 1>>

\* TRUE of every sequence.  An operator that tests it first has its argument
\* computed before its own evaluation starts, not in the middle of it.
Ready(w) == Len(w) >= 0

\* the n limbs of w above limb from, least significant first
Take(w, from, n) == IF Ready(w) THEN Tuple([i \in 1..n |-> Limb(w, from + i)]) ELSE w

\* Columns of natural numbers below 2^31 as limbs, the carries resolved
\* without recursion: each column is spilled over three limbs, the sums are
\* settled to at most Base + 1, and a carry then enters limb i when a limb
\* below it overflows and every limb between is Base - 1.
Spill(c) ==
    IF ~Ready(c) THEN c
    ELSE Tuple([i \in 1..(Len(c) + 2) |->
              (Limb(c, i) % Base) + ((Limb(c, i - 1) \div Base) % Base)
            + (Limb(c, i - 2) \div (Base * Base))])

Settle(c) ==
    IF ~Ready(c) THEN c
    ELSE Tuple([i \in 1..(Len(c) + 1) |-> (Limb(c, i) % Base) + (Limb(c, i - 1) \div Base)])

CarryInto(c, i) ==
    \E j \in 1..(i - 1) : c[j] >= Base /\ \A k \in (j + 1)..(i - 1) : c[k] = Base - 1

Ripple(c) ==
    IF \A i \in 1..Len(c) : c[i] < Base THEN c
    ELSE Tuple([i \in 1..Len(c) |-> (c[i] + IF CarryInto(c, i) THEN 1 ELSE 0) % Base])

\* the product of two limb sequences, a of at most 8 limbs
WMul(a, b) ==
    IF ~(Ready(a) /\ Ready(b)) THEN a
    ELSE Ripple(Settle(Spill(Tuple([n \in 1..(Len(a) + Len(b) - 1) |->
              Limb(a, 1) * Limb(b, n) + Limb(a, 2) * Limb(b, n - 1)
            + Limb(a, 3) * Limb(b, n - 2) + Limb(a, 4) * Limb(b, n - 3)
            + Limb(a, 5) * Limb(b, n - 4) + Limb(a, 6) * Limb(b, n - 5)
            + Limb(a, 7) * Limb(b, n - 6) + Limb(a, 8) * Limb(b, n - 7)]))))

\* w \div d for a small divisor d: the limbs from i down, after remainder rem
RECURSIVE WDivSmallFrom(_, _, _, _)
WDivSmallFrom(w, d, i, rem) ==
    IF i = 0 THEN <<>>
    ELSE WDivSmallFrom(w, d, i - 1, (rem * Base + w[i]) % d)
             \o <<(rem * Base + w[i]) \div d>>

WDivSmall(w, d) == WDivSmallFrom(w, d, Len(w), 0)

\* 1 in fixed point with 7 fraction limbs
FixOne == <<0, 0, 0, 0, 0, 0, 0, 1>>
\* terms of the Taylor series summed: (pi/4)^26 / 27! < 2^(-98)
SeriesTerms == 13

\* a - b for a >= b
FixSub(a, b) == IF Ready(b) THEN WSub(a, b) ELSE b

\* 1 - u * acc / d in fixed point
SeriesStep(u, acc, d) ==
    Take(FixSub(FixOne, WDivSmall(Take(WMul(u, acc), 7, 8), d)), 0, 8)

\* sin(r) / r as a function of u = r * r:  1 - u/(2*3) (1 - u/(4*5) (1 - ...))
RECURSIVE SinPoly(_, _, _)
SinPoly(u, k, acc) ==
    IF k = 0 \/ Len(acc) = 0 THEN acc
    ELSE SinPoly(u, k - 1, SeriesStep(u, acc, (2 * k) * (2 * k + 1)))

\* cos(r) as a function of u = r * r:  1 - u/(1*2) (1 - u/(3*4) (1 - ...))
RECURSIVE CosPoly(_, _, _)
CosPoly(u, k, acc) ==
    IF k = 0 \/ Len(acc) = 0 THEN acc
    ELSE CosPoly(u, k - 1, SeriesStep(u, acc, (2 * k - 1) * (2 * k)))

\* the C library's sin is within 1/2 + 2^-4 units in the last place of the
\* sine (glibc states 0.55)
SinErrorBits == 4

\* 2^-SinErrorBits units in the last place of the double nearest to w
Slack(w) == WShl(<<1>>, WBitLen(w) - MantBits - SinErrorBits)

\* the doubles the library can return for the sine w * 2^e: the nearest
\* double, and the next nearest when w * 2^e is within Slack(w) of the middle
\* between the two
RoundLimbs(s, w, e) ==
    IF Ready(w)
    THEN {Round(s, WSub(w, Slack(w)), e, TRUE), Round(s, w, e, TRUE),
          Round(s, WAdd(w, Slack(w)), e, TRUE)}
    ELSE {NaN}

\* the doubles the library can return for the sine rm * poly * 2^e
RoundProduct(s, rm, poly, e) ==
    IF Ready(poly) THEN RoundLimbs(s, WMul(rm, poly), e) ELSE {NaN}

\* sin or cos of r = rm * Base^(t - 20), |r| <= pi / 4, as doubles;
\* u is r * r with 7 fraction limbs; xs is the sign of x, rs that of r, and q
\* the quadrant: sin(|x|) is sin(r), cos(r), -sin(r), -cos(r) for q = 0, 1, 2, 3
SinOrCos(xs, rs, q, rm, t, u) ==
    IF ~Ready(u) THEN {NaN}
    ELSE IF q % 2 = 0
    THEN RoundProduct(Xor(Xor(xs, rs), q \div 2), rm,
                      SinPoly(u, SeriesTerms, FixOne), 14 * (t - 27))
    ELSE RoundLimbs(Xor(xs, q \div 2), CosPoly(u, SeriesTerms, FixOne), -98)

SinOfReduced(xs, rs, q, rm, t) ==
    IF ~Ready(rm) THEN {NaN}
    ELSE SinOrCos(xs, rs, q, rm, t, Take(WMul(rm, rm), 33 - 2 * t, 7))

\* g * Base^(-13) is the distance of |x| * 2 / pi from the nearest integer, and
\* t the index of its top limb
SinOfFraction(xs, rs, q, g, t) ==
    IF t = 0 THEN {FZero(Xor(Xor(xs, rs), q \div 2))}
    ELSE SinOfReduced(xs, rs, q, Take(WMul(Take(g, t - 8, 8), PiOverTwo), 8, 8), t)

SinCentered(xs, rs, q, g) ==
    IF ~Ready(g) THEN {NaN}
    ELSE SinOfFraction(xs, rs, q, g, TopIdx(g, 13))

\* w is |x| * 2 / pi modulo Base, with 18 fraction limbs of which the top 13
\* are kept; the fraction is taken to the nearest integer
SinOfProduct(xs, w) ==
    IF w[18] >= Base \div 2
    THEN SinCentered(xs, 1, (w[19] + 1) % 4,
             Take(WSub(<<0, 0, 0, 0, 0, 0, 0, 0, 0, 0, 0, 0, 0, 1>>,
                       Take(w, 5, 13)), 0, 13))
    ELSE SinCentered(xs, 0, w[19] % 4, Take(w, 5, 13))

\* x = m * 2^b * Base^a: the limbs of 2 / pi of weight Base^(-a) and above
\* contribute multiples of Base to the product
SinReduce(xs, m, a, b) ==
    SinOfProduct(xs, WMul(WShl(m, b), Tuple([i \in 1..19 |-> Limb(TwoOverPi, a + 19 - i)])))

\* math.sin(x), the set of the values the call can return: it raises
\* ValueError at an infinity; below 2^-26 the sine rounds to its argument,
\* which is returned
sin(x) ==
    IF IsNaN(x) THEN {NaN}
    ELSE IF IsInf(x) THEN {ValueError}
    ELSE IF IsZero(x) \/ x.e + WBitLen(x.m) <= -26 THEN {x}
    ELSE SinReduce(x.s, x.m, x.e \div 14, x.e % 14)

(***************************************************************************)
(* Inputs the calls are made with                                          *)
(***************************************************************************)
Two == Num(2)
\* cutoff frequencies offered to constructors
Cutoffs == {NaN, Num(-1), Zero, One, Two}
\* cutoff frequencies offered to setters
NewCutoffs == {NaN, Num(-1), Zero, Two}
\* init_value
Inits == {Zero, Num(5)}
\* value: -1.0, 100.0 and 0.1
Values == {Num(-1), Num(100), Div(One, Num(10))}
\* dt of a filter call: 0.0, 0.01 and -0.15915494309189535, the double nearest
\* to -1 / (2 * pi), for which 2 * pi * dt is -1.0
Dts == {Zero, Div(One, Num(100)), Div(Num(-1), Mul(Two, pi))}

(***************************************************************************)
(* filters.py: _SingleCutoffFreqFilter, LowPassFilter, HighPassFilter      *)
(* A low-pass filter is [cutoff_freq, prev_output]; a high-pass filter is  *)
(* [cutoff_freq, prev_output, prev_value].  A call that can raise returns  *)
(* [obj, err] or [obj, err, out]: the object as the call leaves it, the    *)
(* exception raised ("none" when it returns) and the value returned.       *)
(***************************************************************************)
\* TRUE when _check_cutoff_freq returns, FALSE when it raises ValueError
check_cutoff_freq(cutoff_freq) == ~Lt(cutoff_freq, Zero)

\* the setter as a reconstruction: retuning also resets the recursive state
set_cutoff_freq_resetting(self, cutoff_freq) ==
    IF check_cutoff_freq(cutoff_freq)
    THEN [obj |-> [self EXCEPT !.cutoff_freq = cutoff_freq, !.prev_output = Zero],
          err |-> "none"]
    ELSE [obj |-> self, err |-> "ValueError"]

set_cutoff_freq(self, cutoff_freq) ==
    IF check_cutoff_freq(cutoff_freq)
    THEN [obj |-> [self EXCEPT !.cutoff_freq = cutoff_freq], err |-> "none"]
    ELSE [obj |-> self, err |-> "ValueError"]

LowPassFilter_init(cutoff_freq, init_value) ==
    IF check_cutoff_freq(cutoff_freq)
    THEN [obj |-> [cutoff_freq |-> cutoff_freq, prev_output |-> init_value],
          err |-> "none"]
    ELSE [obj |-> [cutoff_freq |-> NaN, prev_output |-> NaN], err |-> "ValueError"]

HighPassFilter_init(cutoff_freq, init_value) ==
    IF check_cutoff_freq(cutoff_freq)
    THEN [obj |-> [cutoff_freq |-> cutoff_freq, prev_output |-> init_value,
                   prev_value |-> init_value],
          err |-> "none"]
    ELSE [obj |-> [cutoff_freq |-> NaN, prev_output |-> NaN, prev_value |-> NaN],
          err |-> "ValueError"]

\* the low-pass coefficient computed with the high-pass formula
LowPassFilter_get_alpha_as_high_pass(self, dt) ==
    Div(One, Add(Mul(Mul(Mul(Two, pi), dt), self.cutoff_freq), One))

\* _get_alpha: a float, or ZeroDivisionError when a + 1 == 0.0
LowPassFilter_get_alpha(self, dt) ==
    LET ratio(a) == Div(a, Add(a, One))
    IN  ratio(Mul(Mul(Mul(Two, pi), dt), self.cutoff_freq))

\* _SingleCutoffFreqFilter.filter with LowPassFilter._filter: [obj, err, out];
\* when _get_alpha raises, nothing has been assigned
LowPassFilter_filter(self, value, dt) ==
    LET returned(output) ==
            [obj |-> [self EXCEPT !.prev_output = output], err |-> "none",
             out |-> output]
        filtered(alpha) ==
            IF Raised(alpha) THEN [obj |-> self, err |-> "ZeroDivisionError", out |-> NaN]
            ELSE returned(Add(Mul(alpha, value), Mul(Sub(One, alpha), self.prev_output)))
    IN  filtered(LowPassFilter_get_alpha(self, dt))

HighPassFilter_get_alpha(self, dt) ==
    Div(One, Add(Mul(Mul(Mul(Two, pi), dt), self.cutoff_freq), One))

\* the high-pass step that forgets to store the raw input
HighPassFilter_filter_stale_prev_value(self, value, dt) ==
    LET returned(output) ==
            [obj |-> [self EXCEPT !.prev_output = output], err |-> "none",
             out |-> output]
        filtered(d_value, alpha) ==
            IF Raised(alpha) THEN [obj |-> self, err |-> "ZeroDivisionError", out |-> NaN]
            ELSE returned(Mul(alpha, Add(self.prev_output, d_value)))
    IN  filtered(Sub(value, self.prev_value), HighPassFilter_get_alpha(self, dt))

\* _SingleCutoffFreqFilter.filter with HighPassFilter._filter: [obj, err, out];
\* _prev_value is assigned before _get_alpha is called, and stays assigned when
\* _get_alpha raises
HighPassFilter_filter(self, value, dt) ==
    LET returned(output) ==
            [obj |-> [self EXCEPT !.prev_value = value, !.prev_output = output],
             err |-> "none", out |-> output]
        filtered(d_value, alpha) ==
            IF Raised(alpha)
            THEN [obj |-> [self EXCEPT !.prev_value = value],
                  err |-> "ZeroDivisionError", out |-> NaN]
            ELSE returned(Mul(alpha, Add(self.prev_output, d_value)))
    IN  filtered(Sub(value, self.prev_value), HighPassFilter_get_alpha(self, dt))

(***************************************************************************)
(* filters.py: _LowHighCutoffFreqsFilter, BandPassFilter, BandStopFilter   *)
(* A filter instance is [kind, lpf, hpf]; kind says which of the two       *)
(* single-pole parts exist (a LowPassFilter is its lpf part alone, a       *)
(* HighPassFilter its hpf part alone, the band filters own both).          *)
(***************************************************************************)
NoLpf == [cutoff_freq |-> NaN, prev_output |-> NaN]
NoHpf == [cutoff_freq |-> NaN, prev_output |-> NaN, prev_value |-> NaN]
NoFilter == [kind |-> "none", lpf |-> NoLpf, hpf |-> NoHpf]

\* TRUE when _check_cutoff_freqs returns, FALSE when it raises ValueError
check_cutoff_freqs(low_cutoff_freq, high_cutoff_freq) ==
    ~Gt(low_cutoff_freq, high_cutoff_freq)

\* the constructors: [obj, err], obj being NoFilter when the constructor raises
NewLowPassFilter(cutoff_freq, init_value) ==
    LET made(l) ==
            IF l.err # "none" THEN [obj |-> NoFilter, err |-> l.err]
            ELSE [obj |-> [kind |-> "LowPass", lpf |-> l.obj, hpf |-> NoHpf],
                  err |-> "none"]
    IN  made(LowPassFilter_init(cutoff_freq, init_value))

NewHighPassFilter(cutoff_freq, init_value) ==
    LET made(h) ==
            IF h.err # "none" THEN [obj |-> NoFilter, err |-> h.err]
            ELSE [obj |-> [kind |-> "HighPass", lpf |-> NoLpf, hpf |-> h.obj],
                  err |-> "none"]
    IN  made(HighPassFilter_init(cutoff_freq, init_value))

BandPassFilter_init(low_cutoff_freq, high_cutoff_freq, init_value) ==
    LET made(h, l) ==
            IF ~check_cutoff_freqs(low_cutoff_freq, high_cutoff_freq)
            THEN [obj |-> NoFilter, err |-> "ValueError"]
            ELSE IF h.err # "none" THEN [obj |-> NoFilter, err |-> h.err]
            ELSE IF l.err # "none" THEN [obj |-> NoFilter, err |-> l.err]
            ELSE [obj |-> [kind |-> "BandPass", lpf |-> l.obj, hpf |-> h.obj],
                  err |-> "none"]
    IN  made(HighPassFilter_init(low_cutoff_freq, init_value),
             LowPassFilter_init(high_cutoff_freq, init_value))

BandStopFilter_init(low_cutoff_freq, high_cutoff_freq, init_value) ==
    LET made(l, h) ==
            IF ~check_cutoff_freqs(low_cutoff_freq, high_cutoff_freq)
            THEN [obj |-> NoFilter, err |-> "ValueError"]
            ELSE IF l.err # "none" THEN [obj |-> NoFilter, err |-> l.err]
            ELSE IF h.err # "none" THEN [obj |-> NoFilter, err |-> h.err]
            ELSE [obj |-> [kind |-> "BandStop", lpf |-> l.obj, hpf |-> h.obj],
                  err |-> "none"]
    IN  made(LowPassFilter_init(low_cutoff_freq, init_value),
             HighPassFilter_init(high_cutoff_freq, init_value))

\* set_cutoff_freqs: the ordering check, then one sub-filter's setter after the
\* other; a setter that raises leaves what was assigned before it in place
BandPassFilter_set_cutoff_freqs(self, low_cutoff_freq, high_cutoff_freq) ==
    LET retuned(h, l) ==
            IF ~check_cutoff_freqs(low_cutoff_freq, high_cutoff_freq)
            THEN [obj |-> self, err |-> "ValueError"]
            ELSE IF h.err # "none" THEN [obj |-> self, err |-> h.err]
            ELSE [obj |-> [self EXCEPT !.hpf = h.obj, !.lpf = l.obj], err |-> l.err]
    IN  retuned(set_cutoff_freq(self.hpf, low_cutoff_freq),
                set_cutoff_freq(self.lpf, high_cutoff_freq))

BandStopFilter_set_cutoff_freqs(self, low_cutoff_freq, high_cutoff_freq) ==
    LET retuned(l, h) ==
            IF ~check_cutoff_freqs(low_cutoff_freq, high_cutoff_freq)
            THEN [obj |-> self, err |-> "ValueError"]
            ELSE IF l.err # "none" THEN [obj |-> self, err |-> l.err]
            ELSE [obj |-> [self EXCEPT !.lpf = l.obj, !.hpf = h.obj], err |-> h.err]
    IN  retuned(set_cutoff_freq(self.lpf, low_cutoff_freq),
                set_cutoff_freq(self.hpf, high_cutoff_freq))

\* the cascade in the other order: low-pass first, then high-pass
BandPassFilter_filter_low_pass_first(self, value, dt) ==
    LET second(l, h) ==
            [obj |-> [self EXCEPT !.lpf = l.obj, !.hpf = h.obj], err |-> h.err,
             out |-> h.out]
        first(l) ==
            IF l.err # "none" THEN [obj |-> self, err |-> l.err, out |-> NaN]
            ELSE second(l, HighPassFilter_filter(self.hpf, l.out, dt))
    IN  first(LowPassFilter_filter(self.lpf, value, dt))

\* the band-stop as a cascade: the high-pass is fed the low-pass output
BandStopFilter_filter_cascaded(self, value, dt) ==
    LET second(l, h) ==
            [obj |-> [self EXCEPT !.lpf = l.obj, !.hpf = h.obj], err |-> h.err,
             out |-> IF h.err # "none" THEN NaN ELSE Add(l.out, h.out)]
        first(l) ==
            IF l.err # "none" THEN [obj |-> self, err |-> l.err, out |-> NaN]
            ELSE second(l, HighPassFilter_filter(self.hpf, l.out, dt))
    IN  first(LowPassFilter_filter(self.lpf, value, dt))

\* BandPassFilter.filter: [obj, err, out]; when the high-pass raises the
\* low-pass is not called
BandPassFilter_filter(self, value, dt) ==
    LET second(h, l) ==
            [obj |-> [self EXCEPT !.hpf = h.obj, !.lpf = l.obj], err |-> l.err,
             out |-> l.out]
        first(h) ==
            IF h.err # "none"
            THEN [obj |-> [self EXCEPT !.hpf = h.obj], err |-> h.err, out |-> NaN]
            ELSE second(h, LowPassFilter_filter(self.lpf, h.out, dt))
    IN  first(HighPassFilter_filter(self.hpf, value, dt))

\* BandStopFilter.filter: [obj, err, out]; the low-pass is called first, and
\* when it raises the high-pass is not called
BandStopFilter_filter(self, value, dt) ==
    LET second(l, h) ==
            [obj |-> [self EXCEPT !.lpf = l.obj, !.hpf = h.obj], err |-> h.err,
             out |-> IF h.err # "none" THEN NaN ELSE Add(l.out, h.out)]
        first(l) ==
            IF l.err # "none" THEN [obj |-> self, err |-> l.err, out |-> NaN]
            ELSE second(l, HighPassFilter_filter(self.hpf, value, dt))
    IN  first(LowPassFilter_filter(self.lpf, value, dt))

\* Filter.__call__ / filter, dispatched on the instance's class
Filter_filter(self, value, dt) ==
    LET low(l) == [obj |-> [self EXCEPT !.lpf = l.obj], err |-> l.err, out |-> l.out]
        high(h) == [obj |-> [self EXCEPT !.hpf = h.obj], err |-> h.err, out |-> h.out]
    IN  CASE self.kind = "LowPass" -> low(LowPassFilter_filter(self.lpf, value, dt))
          [] self.kind = "HighPass" -> high(HighPassFilter_filter(self.hpf, value, dt))
          [] self.kind = "BandPass" -> BandPassFilter_filter(self, value, dt)
          [] self.kind = "BandStop" -> BandStopFilter_filter(self, value, dt)

(***************************************************************************)
(* The filter program: one variable holding a filter, on which a host      *)
(* constructs, retunes and filters.                                        *)
(*   filt   the instance the variable holds (NoFilter until a constructor  *)
(*          returns; a constructor that raises leaves no instance)         *)
(*   fcall  the last call: its name, arguments, exception and return value *)
(*   fhist  for the instance in filt: the numbers of filter and of setter  *)
(*          calls made on it, whether a setter has changed it, and, while  *)
(*          none has, the constructor's arguments and the (value, dt)      *)
(*          inputs fed to it                                               *)
(***************************************************************************)
NoHist == [low |-> NaN, high |-> NaN, init |-> NaN, n |-> 0, sets |-> 0,
           fresh |-> TRUE, inputs |-> <<>>]
NewHist(low, high, init) == [NoHist EXCEPT !.low = low, !.high = high, !.init = init]

Call(op, args, err, out) == [op |-> op, args |-> args, err |-> err, out |-> out]

\* f = Cls(...): f is bound only when the constructor returns
Construct(op, args, r, low, high, init) ==
    /\ fcall' = Call(op, args, r.err, <<>>)
    /\ IF r.err = "none"
       THEN filt' = r.obj /\ fhist' = NewHist(low, high, init)
       ELSE UNCHANGED <<filt, fhist>>
    /\ UNCHANGED gvars

ConstructLowPass(c, init) ==
    /\ filt.kind = "none"
    /\ Construct("LowPassFilter", <<c, init>>, NewLowPassFilter(c, init), c, c, init)

ConstructHighPass(c, init) ==
    /\ filt.kind = "none"
    /\ Construct("HighPassFilter", <<c, init>>, NewHighPassFilter(c, init), c, c, init)

ConstructBandPass(low, high, init) ==
    /\ filt.kind = "none"
    /\ Construct("BandPassFilter", <<low, high, init>>,
                 BandPassFilter_init(low, high, init), low, high, init)

ConstructBandStop(low, high, init) ==
    /\ filt.kind = "none"
    /\ Construct("BandStopFilter", <<low, high, init>>,
                 BandStopFilter_init(low, high, init), low, high, init)

Retune(op, args, obj, err) ==
    /\ fcall' = Call(op, args, err, <<>>)
    /\ filt' = obj
    /\ fhist' = IF obj = filt THEN [fhist EXCEPT !.sets = @ + 1]
                ELSE [NoHist EXCEPT !.n = fhist.n, !.sets = fhist.sets + 1,
                                    !.fresh = FALSE]
    /\ UNCHANGED gvars

SetCutoffFreq(c) ==
    /\ filt.kind \in {"LowPass", "HighPass"}
    /\ fhist.sets < MaxSets
    /\ LET low(r) == Retune("set_cutoff_freq", <<c>>, [filt EXCEPT !.lpf = r.obj], r.err)
           high(r) == Retune("set_cutoff_freq", <<c>>, [filt EXCEPT !.hpf = r.obj], r.err)
       IN  IF filt.kind = "LowPass" THEN low(set_cutoff_freq(filt.lpf, c))
           ELSE high(set_cutoff_freq(filt.hpf, c))

SetCutoffFreqs(low, high) ==
    /\ filt.kind \in {"BandPass", "BandStop"}
    /\ fhist.sets < MaxSets
    /\ LET retuned(r) == Retune("set_cutoff_freqs", <<low, high>>, r.obj, r.err)
       IN  IF filt.kind = "BandPass"
           THEN retuned(BandPassFilter_set_cutoff_freqs(filt, low, high))
           ELSE retuned(BandStopFilter_set_cutoff_freqs(filt, low, high))

Filtered(value, dt, r) ==
    /\ filt' = r.obj
    /\ fcall' = Call("filter", <<value, dt>>, r.err,
                     IF r.err = "none" THEN <<r.out>> ELSE <<>>)
    /\ fhist' = [fhist EXCEPT !.n = @ + 1,
                    !.inputs = IF fhist.fresh THEN Append(@, <<value, dt>>)
                               ELSE <<>>]
    /\ UNCHANGED gvars

FilterCall(value, dt) ==
    /\ filt.kind # "none"
    /\ fhist.n < MaxCalls
    /\ Filtered(value, dt, Filter_filter(filt, value, dt))

FNext ==
    \/ \E c \in Cutoffs, init \in Inits : ConstructLowPass(c, init)
    \/ \E c \in Cutoffs, init \in Inits : ConstructHighPass(c, init)
    \/ \E low \in Cutoffs, high \in Cutoffs, init \in Inits :
          ConstructBandPass(low, high, init)
    \/ \E low \in Cutoffs, high \in Cutoffs, init \in Inits :
          ConstructBandStop(low, high, init)
    \/ \E c \in NewCutoffs : SetCutoffFreq(c)
    \/ \E low \in NewCutoffs, high \in NewCutoffs : SetCutoffFreqs(low, high)
    \/ \E value \in Values, dt \in Dts : FilterCall(value, dt)

(***************************************************************************)
(* generators.py: PeriodicSignalGenerator and its subclasses               *)
(* A generator is [kind, freq, t, duty_cycle]; a SineWaveGenerator has no  *)
(* duty_cycle (the field is NaN and never read).  An optional argument is  *)
(* <<>> for None and <<x>> for the float x.                                *)
(***************************************************************************)
NoGen == [kind |-> "none", freq |-> NaN, t |-> NaN, duty_cycle |-> NaN]

HasDutyCycle(g) == g.kind \in {"Square", "Triangle"}

\* TRUE when _validate_freq returns, FALSE when it raises ValueError
validate_freq(freq) == ~Lt(freq, Zero)

set_freq(self, freq) ==
    IF validate_freq(freq)
    THEN [obj |-> [self EXCEPT !.freq = freq], err |-> "none"]
    ELSE [obj |-> self, err |-> "ValueError"]

\* set_period: 1.0 / period raises ZeroDivisionError before anything is set
set_period(self, period) ==
    LET inverted(freq) ==
            IF Raised(freq) THEN [obj |-> self, err |-> "ZeroDivisionError"]
            ELSE set_freq(self, freq)
    IN  inverted(Div(One, period))

\* get_period: [err, out]
get_period(self) ==
    LET inverted(period) ==
            IF Raised(period) THEN [err |-> "ZeroDivisionError", out |-> NaN]
            ELSE [err |-> "none", out |-> period]
    IN  inverted(Div(One, self.freq))

\* TRUE when _validate_duty_cycle returns, FALSE when it raises ValueError
validate_duty_cycle(duty_cycle) == ~(Lt(duty_cycle, Zero) \/ Gt(duty_cycle, One))

set_duty_cycle(self, duty_cycle) ==
    IF validate_duty_cycle(duty_cycle)
    THEN [obj |-> [self EXCEPT !.duty_cycle = duty_cycle], err |-> "none"]
    ELSE [obj |-> self, err |-> "ValueError"]

\* PeriodicSignalGenerator.__init__: [obj, err]
PeriodicSignalGenerator_init(kind, freq, period) ==
    LET made(r) ==
            IF r.err # "none" THEN [obj |-> NoGen, err |-> r.err]
            ELSE [obj |-> [r.obj EXCEPT !.t = Zero], err |-> "none"]
    IN  IF freq = <<>> /\ period = <<>> THEN [obj |-> NoGen, err |-> "ValueError"]
        ELSE IF freq # <<>> /\ period # <<>> THEN [obj |-> NoGen, err |-> "ValueError"]
        ELSE IF freq # <<>> THEN made(set_freq([NoGen EXCEPT !.kind = kind], freq[1]))
        ELSE made(set_period([NoGen EXCEPT !.kind = kind], period[1]))

\* PeriodicSignalGeneratorWithDutyCycle.__init__: [obj, err]
PeriodicSignalGeneratorWithDutyCycle_init(kind, freq, period, duty_cycle) ==
    LET checked(d) == IF d.err # "none" THEN [obj |-> NoGen, err |-> d.err] ELSE d
        made(p) == IF p.err # "none" THEN p
                   ELSE checked(set_duty_cycle(p.obj, duty_cycle))
    IN  made(PeriodicSignalGenerator_init(kind, freq, period))

\* the time assigned, not accumulated
update_time_assigning(self, dt) == [self EXCEPT !.t = dt]

update_time(self, dt) == [self EXCEPT !.t = Add(self.t, dt)]

\* _get_period_fraction: [err, out]; t % period raises ZeroDivisionError when
\* the period is 0.0
get_period_fraction(self) ==
    LET divided(t_in_period, period) ==
            IF Raised(t_in_period) THEN [err |-> "ZeroDivisionError", out |-> NaN]
            ELSE [err |-> "none", out |-> Div(t_in_period, period)]
        fraction(period) ==
            IF period.err # "none" THEN period
            ELSE divided(Mod(self.t, period.out), period.out)
    IN  fraction(get_period(self))

\* the duty-cycle test with <= for <
is_in_duty_cycle_inclusive(self) ==
    LET compare(period_fraction) ==
            IF period_fraction.err # "none"
            THEN [err |-> period_fraction.err, out |-> FALSE]
            ELSE [err |-> "none", out |-> Le(period_fraction.out, self.duty_cycle)]
    IN  compare(get_period_fraction(self))

\* _is_in_duty_cycle: [err, out], out a BOOLEAN
is_in_duty_cycle(self) ==
    LET compare(period_fraction) ==
            IF period_fraction.err # "none"
            THEN [err |-> period_fraction.err, out |-> FALSE]
            ELSE [err |-> "none", out |-> Lt(period_fraction.out, self.duty_cycle)]
    IN  compare(get_period_fraction(self))

\* the _get_sample methods: [err, out, branch].  That of the sine wave is the
\* set of the outcomes the call can have, one for each value of math.sin
SineWaveGenerator_get_sample(self) ==
    LET returned(y) ==
            IF y = ValueError THEN [err |-> "ValueError", out |-> NaN, branch |-> "none"]
            ELSE [err |-> "none", out |-> y, branch |-> "none"]
        outcomes(ys) == {returned(y) : y \in ys}
    IN  outcomes(sin(Mul(Mul(Mul(Two, pi), self.freq), self.t)))

SquareWaveGenerator_get_sample(self) ==
    LET level(d) ==
            IF d.err # "none" THEN [err |-> d.err, out |-> NaN, branch |-> "none"]
            ELSE [err |-> "none", out |-> IF d.out THEN One ELSE Zero,
                  branch |-> "none"]
    IN  level(is_in_duty_cycle(self))

get_upswing(self) ==
    LET returned(duty_cycle_fraction) ==
            IF Raised(duty_cycle_fraction)
            THEN [err |-> "ZeroDivisionError", out |-> NaN, branch |-> "upswing"]
            ELSE [err |-> "none", out |-> duty_cycle_fraction, branch |-> "upswing"]
        swing(period_fraction) ==
            IF period_fraction.err # "none"
            THEN [err |-> period_fraction.err, out |-> NaN, branch |-> "upswing"]
            ELSE returned(Div(period_fraction.out, self.duty_cycle))
    IN  swing(get_period_fraction(self))

get_downswing(self) ==
    LET returned(y) ==
            IF Raised(y)
            THEN [err |-> "ZeroDivisionError", out |-> NaN, branch |-> "downswing"]
            ELSE [err |-> "none", out |-> y, branch |-> "downswing"]
        swing(period_fraction) ==
            IF period_fraction.err # "none"
            THEN [err |-> period_fraction.err, out |-> NaN, branch |-> "downswing"]
            ELSE returned(Div(Sub(One, period_fraction.out),
                              Sub(One, self.duty_cycle)))
    IN  swing(get_period_fraction(self))

TriangleWaveGenerator_get_sample(self) ==
    LET swing(d) ==
            IF d.err # "none" THEN [err |-> d.err, out |-> NaN, branch |-> "none"]
            ELSE IF d.out THEN get_upswing(self)
            ELSE get_downswing(self)
    IN  swing(is_in_duty_cycle(self))

\* self._get_sample(), dispatched on the instance's class: the set of the
\* outcomes the call can have (one, but for the sine wave)
get_sample(self) ==
    CASE self.kind = "Sine" -> SineWaveGenerator_get_sample(self)
      [] self.kind = "Square" -> {SquareWaveGenerator_get_sample(self)}
      [] self.kind = "Triangle" -> {TriangleWaveGenerator_get_sample(self)}

\* PeriodicSignalGenerator.sample: the set of the outcomes [obj, err, out,
\* branch] the call can have; the time is advanced before _get_sample runs, and
\* stays advanced when _get_sample raises
sample(self, dt) ==
    LET result(obj, r) ==
            [obj |-> obj, err |-> r.err, out |-> r.out, branch |-> r.branch]
        sampled(obj) == {result(obj, r) : r \in get_sample(obj)}
    IN  sampled(update_time(self, dt))

(***************************************************************************)
(* The generator program: one variable holding a periodic generator.       *)
(*   gen    the instance (NoGen until a constructor returns)               *)
(*   gcall  the last call: name, arguments, exception, return value, and   *)
(*          for a triangle sample the swing that computed it               *)
(*   ghist  the number of sample calls made on the instance, and whether   *)
(*          every one of them had dt >= 0                                  *)
(***************************************************************************)
Half == Float(1, -1)
\* freq and period arguments: -1.0, 0.0, 0.5 and 1.0
Freqs == {Num(-1), Zero, Half, One}
Periods == {Num(-1), Zero, Half, One}
\* duty_cycle arguments: -1.0, 0.0, 0.5, 1.0 and 1.5
DutyCycles == {Num(-1), Zero, Half, One, Float(3, -1)}
\* dt of a sample call: -2^-60, 0.0, 0.25 and 0.3
SampleDts == {Float(-1, -60), Zero, Float(1, -2), Div(Num(3), Num(10))}
Opt(S) == {<<>>} \cup {<<x>> : x \in S}

NoSamples == [n |-> 0, forward |-> TRUE]

GCall(op, args, err, out, branch) ==
    [op |-> op, args |-> args, err |-> err, out |-> out, branch |-> branch]

GConstruct(op, args, r) ==
    /\ gcall' = GCall(op, args, r.err, <<>>, "none")
    /\ gen' = IF r.err = "none" THEN r.obj ELSE gen
    /\ UNCHANGED <<ghist, fvars>>

ConstructSine(freq, period) ==
    /\ gen.kind = "none"
    /\ GConstruct("SineWaveGenerator", <<freq, period>>,
                  PeriodicSignalGenerator_init("Sine", freq, period))

ConstructSquare(freq, period, duty_cycle) ==
    /\ gen.kind = "none"
    /\ GConstruct("SquareWaveGenerator", <<freq, period, <<duty_cycle>> >>,
                  PeriodicSignalGeneratorWithDutyCycle_init("Square", freq, period,
                                                            duty_cycle))

ConstructTriangle(freq, period, duty_cycle) ==
    /\ gen.kind = "none"
    /\ GConstruct("TriangleWaveGenerator", <<freq, period, <<duty_cycle>> >>,
                  PeriodicSignalGeneratorWithDutyCycle_init("Triangle", freq, period,
                                                            duty_cycle))

GSet(op, arg, r) ==
    /\ gcall' = GCall(op, <<arg>>, r.err, <<>>, "none")
    /\ gen' = r.obj
    /\ UNCHANGED <<ghist, fvars>>

SetFreq(freq) ==
    /\ gen.kind # "none"
    /\ GSet("set_freq", freq, set_freq(gen, freq))

SetPeriod(period) ==
    /\ gen.kind # "none"
    /\ GSet("set_period", period, set_period(gen, period))

SetDutyCycle(duty_cycle) ==
    /\ HasDutyCycle(gen)
    /\ GSet("set_duty_cycle", duty_cycle, set_duty_cycle(gen, duty_cycle))

GetPeriod ==
    /\ gen.kind # "none"
    /\ LET returned(r) == GCall("get_period", <<>>, r.err,
                               IF r.err = "none" THEN <<r.out>> ELSE <<>>, "none")
       IN  gcall' = returned(get_period(gen))
    /\ UNCHANGED <<gen, ghist, fvars>>

Sampled(dt, r) ==
    /\ gen' = r.obj
    /\ gcall' = GCall("sample", <<dt>>, r.err,
                      IF r.err = "none" THEN <<r.out>> ELSE <<>>, r.branch)
    /\ ghist' = [n |-> ghist.n + 1, forward |-> ghist.forward /\ Ge(dt, Zero)]
    /\ UNCHANGED fvars

Sample(dt) ==
    /\ gen.kind # "none"
    /\ ghist.n < MaxSamples
    /\ \E r \in sample(gen, dt) : Sampled(dt, r)

GNext ==
    \/ \E freq \in Opt(Freqs), period \in Opt(Periods) : ConstructSine(freq, period)
    \/ \E freq \in Opt(Freqs), period \in Opt(Periods), d \in DutyCycles :
          ConstructSquare(freq, period, d)
    \/ \E freq \in Opt(Freqs), period \in Opt(Periods), d \in DutyCycles :
          ConstructTriangle(freq, period, d)
    \/ \E freq \in Freqs : SetFreq(freq)
    \/ \E period \in Periods : SetPeriod(period)
    \/ \E d \in DutyCycles : SetDutyCycle(d)
    \/ GetPeriod
    \/ \E dt \in SampleDts : Sample(dt)

(***************************************************************************)
(* The two programs.  Spec is the filter program, GeneratorSpec the        *)
(* generator program; each runs with the other's variables idle.           *)
(***************************************************************************)
Init ==
    /\ filt = NoFilter
    /\ fhist = NoHist
    /\ fcall = Call("start", <<>>, "none", <<>>)
    /\ gen = NoGen
    /\ ghist = NoSamples
    /\ gcall = GCall("start", <<>>, "none", <<>>, "none")

Spec == Init /\ [][FNext]_vars

GeneratorSpec == Init /\ [][GNext]_vars

(***************************************************************************)
(* Properties                                                              *)
(***************************************************************************)
FilterSetters == {"set_cutoff_freq", "set_cutoff_freqs"}
FilterConstructors ==
    {"LowPassFilter", "HighPassFilter", "BandPassFilter", "BandStopFilter"}
GeneratorConstructors ==
    {"SineWaveGenerator", "SquareWaveGenerator", "TriangleWaveGenerator"}
GeneratorSetters == {"set_freq", "set_period", "set_duty_cycle"}

\* C1: a setter call that raises leaves the whole instance as it was: every
\* cutoff frequency and all recursive state.
C1_RejectedSetterChangesNothing ==
    [][(fcall'.op \in FilterSetters /\ fcall'.err # "none") => filt' = filt]_vars

\* C2: every existing single-pole filter has cutoff_freq >= 0, and every
\* existing band filter has 0 <= low cutoff <= high cutoff.
C2_CutoffsValid ==
    /\ filt.kind = "LowPass" => Ge(filt.lpf.cutoff_freq, Zero)
    /\ filt.kind = "HighPass" => Ge(filt.hpf.cutoff_freq, Zero)
    /\ filt.kind = "BandPass" =>
          /\ Ge(filt.hpf.cutoff_freq, Zero)
          /\ Ge(filt.lpf.cutoff_freq, Zero)
          /\ Le(filt.hpf.cutoff_freq, filt.lpf.cutoff_freq)
    /\ filt.kind = "BandStop" =>
          /\ Ge(filt.lpf.cutoff_freq, Zero)
          /\ Ge(filt.hpf.cutoff_freq, Zero)
          /\ Le(filt.lpf.cutoff_freq, filt.hpf.cutoff_freq)

\* Two stand-alone filters driven by a host: [hpf, lpf, err, out] are the two
\* filters, and the exception and the result of the last step.
Standalone(hpf, lpf) == [hpf |-> hpf, lpf |-> lpf, err |-> "none", out |-> NaN]

\* out = lpf.filter(hpf.filter(value, dt), dt) on a stand-alone HighPassFilter
\* and a stand-alone LowPassFilter
CascadeStep(st, value, dt) ==
    LET second(h, l) == [hpf |-> h.obj, lpf |-> l.obj, err |-> l.err, out |-> l.out]
        first(h) ==
            IF h.err # "none"
            THEN [hpf |-> h.obj, lpf |-> st.lpf, err |-> h.err, out |-> NaN]
            ELSE second(h, LowPassFilter_filter(st.lpf, h.out, dt))
    IN  first(HighPassFilter_filter(st.hpf, value, dt))

\* out = lpf.filter(value, dt) + hpf.filter(value, dt) on a stand-alone
\* LowPassFilter and a stand-alone HighPassFilter
ParallelStep(st, value, dt) ==
    LET second(l, h) ==
            [hpf |-> h.obj, lpf |-> l.obj, err |-> h.err,
             out |-> IF h.err # "none" THEN NaN ELSE Add(l.out, h.out)]
        first(l) ==
            IF l.err # "none"
            THEN [hpf |-> st.hpf, lpf |-> l.obj, err |-> l.err, out |-> NaN]
            ELSE second(l, HighPassFilter_filter(st.hpf, value, dt))
    IN  first(LowPassFilter_filter(st.lpf, value, dt))

\* the stand-alone pair after the inputs from the i-th on
RECURSIVE CascadeRun(_, _, _)
CascadeRun(st, inputs, i) ==
    IF i > Len(inputs) THEN st
    ELSE CascadeRun(CascadeStep(st, inputs[i][1], inputs[i][2]), inputs, i + 1)

RECURSIVE ParallelRun(_, _, _)
ParallelRun(st, inputs, i) ==
    IF i > Len(inputs) THEN st
    ELSE ParallelRun(ParallelStep(st, inputs[i][1], inputs[i][2]), inputs, i + 1)

\* the filter in filt and its last filter call agree with the stand-alone pair
SameAs(ref) ==
    /\ filt.hpf = ref.hpf
    /\ filt.lpf = ref.lpf
    /\ fcall.op = "filter" =>
          /\ fcall.err = ref.err
          /\ fcall.err = "none" => fcall.out = <<ref.out>>

\* C3: a BandPassFilter(low, high, init) with low <= high that no setter has
\* changed does, at each filter call, what HighPassFilter(low, init) feeding
\* LowPassFilter(high, init) does on the same inputs: it returns the same
\* output or raises the same exception, and its two parts are in the states of
\* those two filters.
C3_BandPassIsHighThenLow ==
    (filt.kind = "BandPass" /\ fhist.fresh /\ Le(fhist.low, fhist.high)) =>
        SameAs(CascadeRun(Standalone(HighPassFilter_init(fhist.low, fhist.init).obj,
                                     LowPassFilter_init(fhist.high, fhist.init).obj),
                          fhist.inputs, 1))

C3_Witness ==
    /\ filt.kind = "BandPass" /\ fhist.fresh
    /\ fhist.low = One /\ fhist.high = Two /\ fhist.init = Num(5)
    /\ fcall.op = "filter" /\ fcall.err = "none"
    /\ fhist.inputs = << <<Num(100), Div(One, Num(100))>>,
                         <<Div(One, Num(10)), Div(One, Num(100))>> >>

\* C4: a BandStopFilter(low, high, init) with low <= high that no setter has
\* changed returns, at each filter call, the sum of what LowPassFilter(low, init)
\* and HighPassFilter(high, init) return when each is fed the raw values (or
\* raises the exception they raise), and its two parts are in the states of
\* those two filters.
C4_BandStopIsSumOfParallel ==
    (filt.kind = "BandStop" /\ fhist.fresh /\ Le(fhist.low, fhist.high)) =>
        SameAs(ParallelRun(Standalone(HighPassFilter_init(fhist.high, fhist.init).obj,
                                      LowPassFilter_init(fhist.low, fhist.init).obj),
                           fhist.inputs, 1))

C4_Witness ==
    /\ filt.kind = "BandStop" /\ fhist.fresh
    /\ fhist.low = One /\ fhist.high = Two /\ fhist.init = Num(5)
    /\ fcall.op = "filter" /\ fcall.err = "none"
    /\ fhist.inputs = << <<Num(100), Div(One, Num(100))>>,
                         <<Div(One, Num(10)), Div(One, Num(100))>> >>

\* C5: a setter call that returns changes the cutoff frequencies, to its
\* arguments (BandPass: low to the high-pass, high to the low-pass; BandStop:
\* low to the low-pass, high to the high-pass), and nothing else: prev_output
\* and prev_value of every part stay as they were.
C5_SetterStep ==
    (fcall'.op \in FilterSetters /\ fcall'.err = "none") =>
        CASE filt.kind = "LowPass" ->
               filt' = [filt EXCEPT !.lpf.cutoff_freq = fcall'.args[1]]
          [] filt.kind = "HighPass" ->
               filt' = [filt EXCEPT !.hpf.cutoff_freq = fcall'.args[1]]
          [] filt.kind = "BandPass" ->
               filt' = [filt EXCEPT !.hpf.cutoff_freq = fcall'.args[1],
                                    !.lpf.cutoff_freq = fcall'.args[2]]
          [] filt.kind = "BandStop" ->
               filt' = [filt EXCEPT !.lpf.cutoff_freq = fcall'.args[1],
                                    !.hpf.cutoff_freq = fcall'.args[2]]

C5_RetuneKeepsRecursiveState == [][C5_SetterStep]_vars

C5_Witness ==
    /\ filt.kind = "BandPass"
    /\ fcall.op = "set_cutoff_freqs" /\ fcall.err = "none"
    /\ fcall.args = <<Zero, Two>>
    /\ fhist.n = 1
    /\ filt.hpf.prev_value = Num(100)
    /\ ~IsZero(filt.hpf.prev_output) /\ ~IsZero(filt.lpf.prev_output)

\* C6: a periodic generator requires freq > 0: a freq or period argument that
\* is not > 0 is rejected with ValueError, and every existing generator has
\* freq > 0.
C6_FreqPositive ==
    /\ gen.kind # "none" => Gt(gen.freq, Zero)
    /\ (gcall.op \in {"set_freq", "set_period"} /\ ~Gt(gcall.args[1], Zero)) =>
          gcall.err = "ValueError"

\* C7 as amended: t is 0 after construction; a sample(dt) call sets t to the
\* float t + dt and computes the sample at the new t; with dt >= 0 it does not
\* decrease t and keeps t >= 0; no setter, no get_period and no constructor
\* or setter that raises changes t.
C7_Step ==
    /\ (gcall'.op \in GeneratorConstructors /\ gcall'.err = "none") => gen'.t = Zero
    /\ (gcall'.op \in GeneratorConstructors /\ gcall'.err # "none") => gen' = gen
    /\ gcall'.op = "sample" =>
          /\ gen'.t = Add(gen.t, gcall'.args[1])
          /\ gen' = [gen EXCEPT !.t = gen'.t]
          /\ \E r \in get_sample(gen') :
                /\ gcall'.err = r.err
                /\ gcall'.err = "none" => gcall'.out = <<r.out>>
          /\ Ge(gcall'.args[1], Zero) =>
                /\ Ge(gen'.t, gen.t)
                /\ Ge(gen.t, Zero) => Ge(gen'.t, Zero)
    /\ gcall'.op \in GeneratorSetters \cup {"get_period"} => gen'.t = gen.t
    /\ (gcall'.op \in GeneratorSetters /\ gcall'.err # "none") => gen' = gen

C7_TimeAccumulates == [][C7_Step]_vars

\* SquareWaveGenerator(freq=1.0, duty_cycle=0.5) sampled three times with
\* dt = 0.3: the third sample is 0.0, at t = 0.8999999999999999
C7_Witness ==
    /\ gen.kind = "Square" /\ gen.freq = One /\ gen.duty_cycle = Half
    /\ gcall.op = "sample" /\ gcall.args = <<Div(Num(3), Num(10))>>
    /\ ghist.n = 3
    /\ gen.t = Add(Add(Div(Num(3), Num(10)), Div(Num(3), Num(10))), Div(Num(3), Num(10)))
    /\ Lt(gen.t, Div(Num(9), Num(10)))
    /\ gcall.out = <<Zero>>

\* C7 as claimed: over any sequence of calls t stays >= 0 and never decreases.
C7_TimeNeverDecreases ==
    [][/\ C7_Step
       /\ gcall'.op = "sample" => (Ge(gen'.t, gen.t) /\ Ge(gen'.t, Zero))]_vars

\* every filter call made so far had dt >= 0
ForwardInputs == \A i \in 1..Len(fhist.inputs) : Ge(fhist.inputs[i][2], Zero)

\* C8: a LowPassFilter constructed with cutoff_freq 0 that no setter has
\* changed holds its init_value over filter calls with dt >= 0: prev_output
\* equals init_value after every call, and every call returns init_value.
C8_ZeroCutoffLowPassHolds ==
    (filt.kind = "LowPass" /\ fhist.fresh /\ fhist.low = Zero /\ ForwardInputs) =>
        /\ Eq(filt.lpf.prev_output, fhist.init)
        /\ fcall.op = "filter" =>
              /\ fcall.err = "none"
              /\ Eq(fcall.out[1], fhist.init)

\* LowPassFilter(cutoff_freq=0, init_value=5.0).filter(value=100.0, dt=0.01)
\* returns 5.0
C8_Witness ==
    /\ filt.kind = "LowPass" /\ fhist.fresh
    /\ fhist.low = Zero /\ fhist.init = Num(5)
    /\ fhist.n = 2 /\ ForwardInputs
    /\ fcall.op = "filter" /\ fcall.args = <<Num(100), Div(One, Num(100))>>
    /\ fcall.out = <<Num(5)>>

\* C9: a TriangleWaveGenerator with freq > 0 and duty_cycle 0 or 1 never
\* divides by zero in a sample call when every sample call so far had
\* dt >= 0: with duty_cycle 0 every sample is computed by the downswing, with
\* duty_cycle 1 by the upswing.
C9_DegenerateDutyCycleNoZeroDivision ==
    (/\ gen.kind = "Triangle" /\ gcall.op = "sample" /\ ghist.forward
     /\ Gt(gen.freq, Zero) /\ gen.duty_cycle \in {Zero, One}) =>
        /\ gcall.err = "none"
        /\ gen.duty_cycle = Zero => gcall.branch = "downswing"
        /\ gen.duty_cycle = One => gcall.branch = "upswing"

C9_Witness ==
    /\ gen.kind = "Triangle" /\ gcall.op = "sample" /\ ghist.forward
    /\ gen.freq = One /\ gen.duty_cycle = One
    /\ ghist.n = 3 /\ gcall.args = <<Div(Num(3), Num(10))>>
    /\ Gt(gen.t, Half)
    /\ gcall.err = "none" /\ gcall.branch = "upswing" /\ gcall.out = <<gen.t>>

\* an integer of magnitude below 2^52
IsSmallInteger(x) ==
    /\ x.k = "fin"
    /\ x.e + WBitLen(x.m) <= 52
    /\ x.e >= 0 \/ ~WLowNonZero(x.m, -x.e)

\* prev_output of a zero-cutoff high-pass filter after the inputs from the
\* i-th on: each call adds the float value - prev_value to it
RECURSIVE Accumulated(_, _, _, _)
Accumulated(prev_output, prev_value, inputs, i) ==
    IF i > Len(inputs) THEN prev_output
    ELSE Accumulated(Add(prev_output, Sub(inputs[i][1], prev_value)),
                     inputs[i][1], inputs, i + 1)

\* C10 as amended: a HighPassFilter constructed with cutoff_freq 0 that no
\* setter has changed is an accumulator of input changes: every filter call
\* returns, and stores in prev_output, the float prev_output + (value -
\* prev_value), and stores value in prev_value.  The output equals value when
\* init_value and all values so far are integers of magnitude below 2^52.
C10_ZeroCutoffHighPassAccumulates ==
    (filt.kind = "HighPass" /\ fhist.fresh /\ fhist.low = Zero
     /\ fcall.op = "filter") =>
        /\ fcall.err = "none"
        /\ filt.hpf.prev_value = fcall.args[1]
        /\ fcall.out = <<filt.hpf.prev_output>>
        /\ filt.hpf.prev_output = Accumulated(fhist.init, fhist.init, fhist.inputs, 1)
        /\ (/\ IsSmallInteger(fhist.init)
            /\ \A i \in 1..Len(fhist.inputs) : IsSmallInteger(fhist.inputs[i][1])) =>
              Eq(fcall.out[1], fcall.args[1])

\* HighPassFilter(cutoff_freq=0, init_value=5.0).filter(0.1, 0.01) returns
\* 0.09999999999999964, which is 5.0 + (0.1 - 5.0) in floats
C10_Witness ==
    /\ filt.kind = "HighPass" /\ fhist.fresh
    /\ fhist.low = Zero /\ fhist.init = Num(5)
    /\ fhist.n = 1
    /\ fcall.op = "filter" /\ fcall.args = <<Div(One, Num(10)), Div(One, Num(100))>>
    /\ fcall.out = <<Add(Num(5), Sub(Div(One, Num(10)), Num(5)))>>
    /\ Lt(fcall.out[1], Div(One, Num(10)))

\* C10 as claimed: after every filter call the returned output, prev_output
\* and prev_value all equal that call's value.
C10_ZeroCutoffHighPassPasses ==
    (filt.kind = "HighPass" /\ fhist.fresh /\ fhist.low = Zero
     /\ fcall.op = "filter") =>
        /\ fcall.err = "none"
        /\ Eq(fcall.out[1], fcall.args[1])
        /\ Eq(filt.hpf.prev_output, fcall.args[1])
        /\ Eq(filt.hpf.prev_value, fcall.args[1])

====
